---- MODULE Spec2Model ----
(***************************************************************************)
(* A model of the scorpion TODO generator (package main, ToDoGenerator):   *)
(* the per-file comment scanner (parseFile), the record builder            *)
(* (NewComment, parseIniProperties, parseEstimate), the deduplicating      *)
(* admission (addComment) and the orchestration of Generate with its       *)
(* WaitGroup and mutex.                                                    *)
(*                                                                         *)
(* Text is modelled as a sequence of one-character strings, so that the    *)
(* parsers are computed index by index as the Go code computes them.       *)
(***************************************************************************)
EXTENDS Integers, Sequences, FiniteSets, TLC

(***************************************************************************)
(* Characters                                                              *)
(***************************************************************************)
Lower == <<"a","b","c","d","e","f","g","h","i","j","k","l","m",
           "n","o","p","q","r","s","t","u","v","w","x","y","z">>
Upper == <<"A","B","C","D","E","F","G","H","I","J","K","L","M",
           "N","O","P","Q","R","S","T","U","V","W","X","Y","Z">>
Digits == <<"0","1","2","3","4","5","6","7","8","9">>

Range(s) == { s[k] : k \in DOMAIN s }

LowerCase == Range(Lower)
Letters == Range(Lower) \cup Range(Upper)
Numerals == Range(Digits)
UpperOf == [ch \in LowerCase |-> Upper[CHOOSE k \in DOMAIN Lower : Lower[k] = ch]]

\* unicode.IsSpace, on the characters a scanned line can hold
IsSpace(ch) == ch \in {" ", "\t"}

\* unicode.IsLetter
IsLetter(ch) == ch \in Letters

\* unicode.ToUpper
ToUpper(ch) == IF ch \in LowerCase THEN UpperOf[ch] ELSE ch

IsDigit(ch) == ch \in Numerals
DigitVal(ch) == (CHOOSE k \in DOMAIN Digits : Digits[k] = ch) - 1

(***************************************************************************)
(* package strings                                                         *)
(***************************************************************************)
RECURSIVE TrimLeft(_)
TrimLeft(s) ==
    IF s # <<>> /\ IsSpace(Head(s)) THEN TrimLeft(Tail(s)) ELSE s

RECURSIVE TrimRight(_)
TrimRight(s) ==
    IF s # <<>> /\ IsSpace(s[Len(s)])
    THEN TrimRight(SubSeq(s, 1, Len(s) - 1))
    ELSE s

\* strings.TrimSpace
TrimSpace(s) == TrimRight(TrimLeft(s))

\* strings.Join(lines, sep)
RECURSIVE Join(_, _)
Join(lines, sep) ==
    IF lines = <<>> THEN <<>>
    ELSE IF Len(lines) = 1 THEN lines[1]
    ELSE lines[1] \o sep \o Join(Tail(lines), sep)

\* strings.Contains(s, ch) for a one-character needle
Contains(s, ch) == \E k \in DOMAIN s : s[k] = ch

\* index (1-based) of the first ch in s, 0 when there is none: bytes.Index
IndexOf(s, ch) ==
    IF Contains(s, ch)
    THEN CHOOSE k \in DOMAIN s : s[k] = ch /\ \A m \in 1..(k - 1) : s[m] # ch
    ELSE 0

\* bytes.Split(s, sep) for a one-character separator: always at least one piece
RECURSIVE Split(_, _)
Split(s, ch) ==
    LET k == IndexOf(s, ch)
    IN IF k = 0 THEN <<s>>
       ELSE <<SubSeq(s, 1, k - 1)>> \o Split(SubSeq(s, k + 1, Len(s)), ch)

\* strings.Fields: the maximal runs of non-space characters
RECURSIVE Fields(_)
Fields(s) ==
    LET t == TrimLeft(s)
        RECURSIVE WordEnd(_)
        WordEnd(k) == IF k < Len(t) /\ ~IsSpace(t[k + 1]) THEN WordEnd(k + 1) ELSE k
        e == WordEnd(0)
    IN IF t = <<>> THEN <<>>
       ELSE <<SubSeq(t, 1, e)>> \o Fields(SubSeq(t, e + 1, Len(t)))

(***************************************************************************)
(* parseComment                                                            *)
(***************************************************************************)
isCommentRune(r) == r \in {"/", "#", "%", ";", "*"}

\* the nil slice and a present slice; emptyRunes[:] is present and empty
NilRunes == [nil |-> TRUE, runes |-> <<>>]
Runes(s) == [nil |-> FALSE, runes |-> s]
emptyRunes == Runes(<<>>)

\* for i < size && unicode.IsSpace(runes[i]) { i++ }     (i is 0-based)
RECURSIVE SkipSpace(_, _)
SkipSpace(runes, i) ==
    IF i < Len(runes) /\ IsSpace(runes[i + 1]) THEN SkipSpace(runes, i + 1) ELSE i

\* for i < size && isCommentRune(runes[i]) { i++; hasComment = true }
RECURSIVE SkipCommentRunes(_, _)
SkipCommentRunes(runes, i) ==
    IF i < Len(runes) /\ isCommentRune(runes[i + 1])
    THEN SkipCommentRunes(runes, i + 1)
    ELSE i

\* for j > i && unicode.IsSpace(runes[j]) { j-- }
RECURSIVE SkipSuffixSpace(_, _, _)
SkipSuffixSpace(runes, i, j) ==
    IF j > i /\ IsSpace(runes[j + 1]) THEN SkipSuffixSpace(runes, i, j - 1) ELSE j

\* the "empty comment" test of parseComment
IsEmptyComment(i, j, size) == i >= size \/ j < 0 \/ i >= j

parseComment(line) ==
    LET size == Len(line)
        i0 == SkipSpace(line, 0)
        i1 == SkipCommentRunes(line, i0)
        hasComment == i1 > i0
        i == SkipSpace(line, i1)
        j == SkipSuffixSpace(line, i, size - 1)
    IN IF ~hasComment THEN NilRunes
       ELSE IF IsEmptyComment(i, j, size) THEN emptyRunes
       ELSE Runes(SubSeq(line, i + 1, j + 1))

(***************************************************************************)
(* parseToDoTitle                                                          *)
(***************************************************************************)
commentPrefixes ==
    << <<"T","O","D","O",":"," ">>,
       <<"F","I","X","M","E",":"," ">>,
       <<"B","U","G",":"," ">>,
       <<"H","A","C","K",":"," ">>,
       <<"U","R","G","E","N","T",":"," ">>,
       <<"R","E","F","S",":"," ">> >>

\* startsWith does not check the length: its caller has checked size > prlen
startsWith(s, pr) == \A k \in DOMAIN pr : ToUpper(s[k]) = pr[k]

\* the test of one prefix in parseToDoTitle
PrefixMatchesNotStrict(line, pr) == Len(line) >= Len(pr) /\ startsWith(line, pr)
PrefixMatches(line, pr) == Len(line) > Len(pr) /\ startsWith(line, pr)

NoTitle == [ctype |-> NilRunes, title |-> NilRunes]

parseToDoTitle(c) ==
    IF c.nil \/ Len(c.runes) = 0 THEN NoTitle
    ELSE LET line == c.runes
             hits == { k \in DOMAIN commentPrefixes :
                          PrefixMatches(line, commentPrefixes[k]) }
         IN IF hits = {} THEN NoTitle
            ELSE LET k == CHOOSE x \in hits : \A y \in hits : x <= y
                     pr == commentPrefixes[k]
                     prlen == Len(pr)
                 IN [ctype |-> Runes(SubSeq(pr, 1, prlen - 2)),
                     title |-> Runes(SubSeq(line, prlen + 1, Len(line)))]

(***************************************************************************)
(* strconv.Atoi and strconv.ParseFloat on decimal text.  A float64 is      *)
(* modelled as an exact fraction num/den in lowest terms (den > 0); the    *)
(* texts of the model are optionally signed decimals with an optional      *)
(* fraction part, every other text is a syntax error.                      *)
(***************************************************************************)
RECURSIVE DigitsValue(_)
DigitsValue(s) ==
    IF s = <<>> THEN 0
    ELSE 10 * DigitsValue(SubSeq(s, 1, Len(s) - 1)) + DigitVal(s[Len(s)])

AllDigits(s) == \A k \in DOMAIN s : IsDigit(s[k])

IsSign(ch) == ch \in {"+", "-"}
Unsigned(s) == IF s # <<>> /\ IsSign(s[1]) THEN Tail(s) ELSE s
SignOf(s) == IF s # <<>> /\ s[1] = "-" THEN -1 ELSE 1

\* strconv.Atoi: [err, val]
Atoi(s) ==
    LET u == Unsigned(s)
    IN IF u # <<>> /\ AllDigits(u)
       THEN [err |-> FALSE, val |-> SignOf(s) * DigitsValue(u)]
       ELSE [err |-> TRUE, val |-> 0]

RECURSIVE Gcd(_, _)
Gcd(a, b) == IF b = 0 THEN a ELSE Gcd(b, a % b)

Abs(n) == IF n < 0 THEN -n ELSE n

RECURSIVE Pow10(_)
Pow10(n) == IF n = 0 THEN 1 ELSE 10 * Pow10(n - 1)

Frac(n, d) ==
    LET g == Gcd(Abs(n), d)
    IN [num |-> n \div g, den |-> d \div g]

Zero == Frac(0, 1)

\* f / 60.0
Div60(f) == Frac(f.num, f.den * 60)

\* a < b for fractions
FracLess(a, b) == a.num * b.den < b.num * a.den

\* strconv.ParseFloat(s, 64): [err, val]
ParseFloat(s) ==
    LET u == Unsigned(s)
        dot == IndexOf(u, ".")
        ip == IF dot = 0 THEN u ELSE SubSeq(u, 1, dot - 1)
        fp == IF dot = 0 THEN <<>> ELSE SubSeq(u, dot + 1, Len(u))
    IN IF AllDigits(ip) /\ AllDigits(fp) /\ Len(ip) + Len(fp) > 0
       THEN [err |-> FALSE,
             val |-> Frac(SignOf(s) * DigitsValue(ip \o fp), Pow10(Len(fp)))]
       ELSE [err |-> TRUE, val |-> Zero]

(***************************************************************************)
(* parseEstimate                                                           *)
(***************************************************************************)
estimateEpsilon == Frac(1, 100)

\* the divisor applied for the unit character: f / 60.0 for 'm'
EstimateInHours(f, last) == IF last = "m" THEN Div60(f) ELSE f

parseEstimate(estimate) ==
    IF Len(estimate) = 0 THEN [err |-> TRUE, val |-> Zero]
    ELSE LET last == estimate[Len(estimate)]
             s == IF IsLetter(last)
                  THEN SubSeq(estimate, 1, Len(estimate) - 1)
                  ELSE estimate
             f == ParseFloat(s)
         IN IF IsLetter(last) /\ last # "m" /\ last # "h"
            THEN [err |-> TRUE, val |-> Zero]
            ELSE IF ~f.err
                 THEN [err |-> FALSE, val |-> EstimateInHours(f.val, last)]
                 ELSE [err |-> TRUE, val |-> Zero]

(***************************************************************************)
(* goini: INI.Parse(data, " ", "=") and INI.Get, as parseIniProperties     *)
(* uses them.  The data is cut at every " "; a piece is trimmed, skipped   *)
(* when empty or starting with ';' or '#', read as a section header when   *)
(* bracketed, and otherwise must hold "=": the text before it is the key   *)
(* and the text after it the value, stored in the current section.  Get    *)
(* reads the default (unnamed) section.                                    *)
(***************************************************************************)
IniEmpty == [err |-> FALSE, section |-> <<>>, kv |-> <<>>]

IniPiece(ini, piece) ==
    LET t == TrimSpace(piece)
        size == Len(t)
        pos == IndexOf(t, "=")
    IN IF ini.err \/ size = 0 \/ t[1] \in {";", "#"} THEN ini
       ELSE IF t[1] = "[" /\ t[size] = "]"
       THEN [ini EXCEPT !.section = SubSeq(t, 2, size - 1),
                        !.kv = IF SubSeq(t, 2, size - 1) = <<>> THEN <<>> ELSE @]
       ELSE IF pos = 0 THEN [ini EXCEPT !.err = TRUE]
       ELSE IF ini.section # <<>> THEN ini
       ELSE [ini EXCEPT !.kv = Append(@, [k |-> TrimSpace(SubSeq(t, 1, pos - 1)),
                                          v |-> TrimSpace(SubSeq(t, pos + 1, size))])]

RECURSIVE IniFold(_, _)
IniFold(ini, pieces) ==
    IF pieces = <<>> THEN ini ELSE IniFold(IniPiece(ini, Head(pieces)), Tail(pieces))

iniParse(line) == IniFold(IniEmpty, Split(line, " "))

\* INI.Get(key): [ok, v]; a later assignment of a key replaces an earlier one
iniGet(ini, key) ==
    LET at == { n \in DOMAIN ini.kv : ini.kv[n].k = key }
    IN IF at = {} THEN [ok |-> FALSE, v |-> <<>>]
       ELSE [ok |-> TRUE, v |-> ini.kv[CHOOSE n \in at : \A m \in at : m <= n].v]

categoryIniKey == <<"c","a","t","e","g","o","r","y">>
issueIniKey == <<"i","s","s","u","e">>
estimateIniKey == <<"e","s","t","i","m","a","t","e">>

(***************************************************************************)
(* ToDoComment, parseIniProperties, NewComment                             *)
(***************************************************************************)
\* &ToDoComment{Type, Title, File, Line}: the other fields hold zero values
ToDoComment(ctype, title, path, lineNumber) ==
    [Type |-> ctype, Title |-> title, Body |-> <<>>, File |-> path,
     Line |-> lineNumber, Issue |-> 0, Category |-> <<>>, Estimate |-> Zero]

\* the closing test of parseIniProperties: nothing was populated
NothingParsed(t) ==
    Len(t.Category) = 0 /\ t.Issue = 0 /\ FracLess(t.Estimate, estimateEpsilon)

\* parseIniProperties: [err, t], t being the receiver as the call leaves it
parseIniProperties(t, line) ==
    IF ~Contains(line, "=") THEN [err |-> TRUE, t |-> t]
    ELSE LET ini == iniParse(line)
             cat == iniGet(ini, categoryIniKey)
             iss == iniGet(ini, issueIniKey)
             est == iniGet(ini, estimateIniKey)
             t1 == IF cat.ok THEN [t EXCEPT !.Category = cat.v] ELSE t
             t2 == IF iss.ok /\ ~Atoi(iss.v).err
                   THEN [t1 EXCEPT !.Issue = Atoi(iss.v).val] ELSE t1
             t3 == IF est.ok /\ ~parseEstimate(est.v).err
                   THEN [t2 EXCEPT !.Estimate = parseEstimate(est.v).val] ELSE t2
         IN IF ini.err THEN [err |-> TRUE, t |-> t]
            ELSE [err |-> NothingParsed(t3), t |-> t3]

\* the lines NewComment joins into the body: body[2:] when the second line
\* parsed as properties, body[1:] when it did not
BodyLinesKeepSecond(body, parsed) == SubSeq(body, 2, Len(body))
BodyLines(body, parsed) ==
    IF parsed THEN SubSeq(body, 3, Len(body)) ELSE SubSeq(body, 2, Len(body))

\* NewComment: <<>> for nil, <<t>> for a comment
NewComment(path, lineNumber, ctype, body) ==
    IF Len(body) = 0 THEN <<>>
    ELSE LET t == ToDoComment(ctype, body[1], path, lineNumber)
             p == parseIniProperties(t, body[2])
         IN IF Len(body) > 1
            THEN << [p.t EXCEPT !.Body =
                        TrimSpace(Join(BodyLines(body, ~p.err), <<"\n">>))] >>
            ELSE <<t>>

(***************************************************************************)
(* countTitleWords and the fingerprint of addComment                       *)
(***************************************************************************)
countTitleWords(s) ==
    Cardinality({ k \in DOMAIN Fields(s) : Len(Fields(s)[k]) > 2 })

\* hex(md5(Title ++ Body)): the digest is modelled by the text it digests
Fingerprint(c) == c.Title \o c.Body

\* countTitleWords(c.Title) >= td.minWords || len(c.Title) >= td.minChars
SubstantialOnBoth(c, mw, mc) == countTitleWords(c.Title) >= mw /\ Len(c.Title) >= mc
Substantial(c, mw, mc) == countTitleWords(c.Title) >= mw \/ Len(c.Title) >= mc

(***************************************************************************)
(* The state of one run                                                    *)
(***************************************************************************)
VARIABLES
    files,         \* the walked tree: per path its lines, whether os.Open
                   \* succeeds and whether the filters let it through
    minWords,      \* td.minWords
    minChars,      \* td.minChars
    gpc,           \* where Generate is: "walk", "wait", "done", "exit", "off"
    pending,       \* paths godirwalk has not yet handed to the callback
    matchesCount,  \* matchesCount of Generate
    commentsWG,    \* td.commentsWG: the WaitGroup counter
    scan,          \* per path: the parseFile goroutine and its locals
    tasks,         \* per path: the addComment goroutines it spawned
    commentMux,    \* td.commentMux: the task holding it, or NoTask
    addedMap,      \* td.addedMap: the fingerprints present
    comments,      \* td.comments
    returned,      \* the slice Generate returned
    emitted,       \* per path: the accountComment calls made, in order
    bpc,           \* the NewComment call under test: "call", "done", "off"
    bbody,         \* its body argument
    bout,          \* its result
    lpc,           \* the parser call under test: "comment", "title", then
                   \* "commented", "titled"; or "off"
    lin,           \* its argument: a line, or the text of a comment
    lout,          \* its result
    invocation     \* the number of Generate calls made on the generator

genVars == <<files, minWords, minChars, gpc, pending, matchesCount, commentsWG,
             scan, tasks, commentMux, addedMap, comments, returned, emitted>>
buildVars == <<bpc, bbody, bout>>
leafVars == <<lpc, lin, lout>>
vars == <<files, minWords, minChars, gpc, pending, matchesCount, commentsWG,
          scan, tasks, commentMux, addedMap, comments, returned, emitted,
          bpc, bbody, bout, lpc, lin, lout, invocation>>

Paths == DOMAIN files
NoTask == <<0, 0>>
TaskIds == UNION { { <<f, k>> : k \in DOMAIN tasks[f] } : f \in Paths }

\* var todo []string; var lastType string; var lastStart int; lineNumber := 0
ScanLocals == [lineNumber |-> 0, todo |-> <<>>, lastType |-> <<>>, lastStart |-> 0]

\* a path whose parseFile goroutine has not been started
NotStarted == [pc |-> "none", st |-> ScanLocals]

(***************************************************************************)
(* parseFile: the body of the scanning loop as a function of the locals    *)
(***************************************************************************)
\* lastStart = lineNumber - 1
StartLineOfPass(lineNumber) == lineNumber
StartLine(lineNumber) == lineNumber - 1

\* "do we need to finalize previous": a title line read while a block is open
FinalizeOnTitleNever(st) == FALSE
FinalizeOnTitle(st) == st.lastType # <<>>

\* "not a comment anymore: finalize"
FinalizeOnCode(st) == st.lastType # <<>>

\* lastType = "" after the block was finalized by a line of code
CloseBlockForgotten(st) == st
CloseBlock(st) == [st EXCEPT !.lastType = <<>>]

\* todo = append(todo, string(c))
ContinueBlockDropped(todo, c) == todo
ContinueBlock(todo, c) == Append(todo, c)

\* "detect todo item at the end of the file"
FinalizeAtEnd(st) == st.lastType # <<>>

\* the arguments of the accountComment call that finalizes the open block
OpenBlock(st) == [lineNumber |-> st.lastStart, ctype |-> st.lastType, body |-> st.todo]

\* one pass of the loop over `line`: the locals after it and the
\* accountComment calls it made
ParseLine(st, line) ==
    LET n == st.lineNumber + 1
        c == parseComment(line)
        tt == parseToDoTitle(c)
        read == [st EXCEPT !.lineNumber = n]
    IN IF ~c.nil
       THEN IF ~tt.title.nil
            THEN [calls |-> IF FinalizeOnTitle(st) THEN <<OpenBlock(st)>> ELSE <<>>,
                  st |-> [lineNumber |-> n,
                          lastType |-> tt.ctype.runes,
                          lastStart |-> StartLine(n),
                          todo |-> <<tt.title.runes>>]]
            ELSE IF st.lastType # <<>>
            THEN [calls |-> <<>>,
                  st |-> [read EXCEPT !.todo = ContinueBlock(@, c.runes)]]
            ELSE [calls |-> <<>>, st |-> read]
       ELSE IF FinalizeOnCode(st)
            THEN [calls |-> <<OpenBlock(st)>>, st |-> CloseBlock(read)]
            ELSE [calls |-> <<>>, st |-> read]

(***************************************************************************)
(* The WaitGroup and the mutex                                             *)
(***************************************************************************)
\* td.commentsWG.Add(1) before `go td.parseFile(osPathname)`
AddForScan(wg) == wg + 1

\* td.commentsWG.Add(1) before `go td.addComment(c)`
AddForTaskMissing(wg) == wg
AddForTask(wg) == wg + 1

\* defer td.commentsWG.Done()
WgDoneForgotten(wg) == wg
WgDone(wg) == wg - 1

\* td.commentsWG.Wait() returns
WaitOver(wg) == wg = 0

\* td.commentMux.Lock() returns
LockFree(mux) == mux = NoTask

\* td.commentMux.Unlock()
UnlockedNever(mux) == mux
Unlocked(mux) == NoTask

\* _, ok := td.addedMap[s]
IsDuplicate(s, added) == s \in added

\* td.addedMap[s] = true
RecordedNothing(added, s) == added
Recorded(added, s) == added \cup {s}

\* log.Printf("Ignoring comment in %v:%v", ...): td.addedMap is not written
IgnoredButRecorded(added, s) == added \cup {s}
Ignored(added, s) == added

\* accountComment over the calls of one loop pass: the tasks spawned
Spawned(f, calls) ==
    LET c == NewComment(f, calls[1].lineNumber, calls[1].ctype, calls[1].body)
    IN IF calls = <<>> \/ c = <<>> THEN <<>>
       ELSE << [c |-> c[1], pc |-> "start"] >>

Account(f, calls) ==
    /\ emitted' = [emitted EXCEPT ![f] = @ \o calls]
    /\ tasks' = [tasks EXCEPT ![f] = @ \o Spawned(f, calls)]
    /\ commentsWG' = IF Spawned(f, calls) # <<>> THEN AddForTask(commentsWG)
                     ELSE commentsWG

(***************************************************************************)
(* Generate                                                                *)
(***************************************************************************)
\* the Walk callback on one path, the paths coming in any order (Unsorted)
GenerateVisit(f) ==
    /\ gpc = "walk"
    /\ f \in pending
    /\ pending' = pending \ {f}
    /\ IF files[f].matches
       THEN /\ matchesCount' = matchesCount + 1
            /\ commentsWG' = AddForScan(commentsWG)
            /\ scan' = [scan EXCEPT ![f].pc = "open"]
       ELSE UNCHANGED <<matchesCount, commentsWG, scan>>
    /\ UNCHANGED <<files, minWords, minChars, gpc, tasks, commentMux, addedMap,
                   comments, returned, emitted, buildVars, leafVars, invocation>>

\* Walk returns an error (the root cannot be read): os.Exit(1)
GenerateWalkFails ==
    /\ gpc = "walk"
    /\ pending = Paths
    /\ gpc' = "exit"
    /\ UNCHANGED <<files, minWords, minChars, pending, matchesCount, commentsWG,
                   scan, tasks, commentMux, addedMap, comments, returned, emitted,
                   buildVars, leafVars, invocation>>

\* Walk returns nil: Generate goes on to td.commentsWG.Wait()
GenerateWalked ==
    /\ gpc = "walk"
    /\ pending = {}
    /\ gpc' = "wait"
    /\ UNCHANGED <<files, minWords, minChars, pending, matchesCount, commentsWG,
                   scan, tasks, commentMux, addedMap, comments, returned, emitted,
                   buildVars, leafVars, invocation>>

\* Wait returns; return td.comments, nil
GenerateReturn ==
    /\ gpc = "wait"
    /\ WaitOver(commentsWG)
    /\ returned' = comments
    /\ gpc' = "done"
    /\ UNCHANGED <<files, minWords, minChars, pending, matchesCount, commentsWG,
                   scan, tasks, commentMux, addedMap, comments, emitted, buildVars, leafVars, invocation>>

(***************************************************************************)
(* parseFile                                                               *)
(***************************************************************************)
\* f, err := os.Open(path); if err != nil { log.Print(err); return }
AfterOpenAlwaysReads(opens) == "loop"
AfterOpen(opens) == IF opens THEN "loop" ELSE "ret"

\* os.Open(path)
ParseFileOpen(f) ==
    /\ scan[f].pc = "open"
    /\ scan' = [scan EXCEPT ![f].pc = AfterOpen(files[f].opens)]
    /\ UNCHANGED <<files, minWords, minChars, gpc, pending, matchesCount,
                   commentsWG, tasks, commentMux, addedMap, comments, returned,
                   emitted, buildVars, leafVars, invocation>>

\* scanner.Scan() yields a line: one pass of the loop
ParseFileLine(f) ==
    /\ scan[f].pc = "loop"
    /\ scan[f].st.lineNumber < Len(files[f].lines)
    /\ LET r == ParseLine(scan[f].st, files[f].lines[scan[f].st.lineNumber + 1])
       IN /\ scan' = [scan EXCEPT ![f].st = r.st]
          /\ Account(f, r.calls)
    /\ UNCHANGED <<files, minWords, minChars, gpc, pending, matchesCount,
                   commentMux, addedMap, comments, returned, buildVars, leafVars, invocation>>

\* scanner.Scan() yields no more: the block still open is finalized
ParseFileEnd(f) ==
    /\ scan[f].pc = "loop"
    /\ scan[f].st.lineNumber = Len(files[f].lines)
    /\ scan' = [scan EXCEPT ![f].pc = "ret"]
    /\ Account(f, IF FinalizeAtEnd(scan[f].st) THEN <<OpenBlock(scan[f].st)>> ELSE <<>>)
    /\ UNCHANGED <<files, minWords, minChars, gpc, pending, matchesCount,
                   commentMux, addedMap, comments, returned, buildVars, leafVars, invocation>>

\* the deferred td.commentsWG.Done() of parseFile
ParseFileDone(f) ==
    /\ scan[f].pc = "ret"
    /\ scan' = [scan EXCEPT ![f].pc = "done"]
    /\ commentsWG' = WgDone(commentsWG)
    /\ UNCHANGED <<files, minWords, minChars, gpc, pending, matchesCount,
                   tasks, commentMux, addedMap, comments, returned, emitted,
                   buildVars, leafVars, invocation>>

(***************************************************************************)
(* addComment                                                              *)
(***************************************************************************)
\* the fingerprint is computed, then td.commentMux.Lock() returns
AddCommentLock(f, k) ==
    /\ tasks[f][k].pc = "start"
    /\ LockFree(commentMux)
    /\ commentMux' = <<f, k>>
    /\ tasks' = [tasks EXCEPT ![f][k].pc = "locked"]
    /\ UNCHANGED <<files, minWords, minChars, gpc, pending, matchesCount,
                   commentsWG, scan, addedMap, comments, returned, emitted,
                   buildVars, leafVars, invocation>>

\* if _, ok := td.addedMap[s]; ok { return }
AddCommentCheck(f, k) ==
    /\ tasks[f][k].pc = "locked"
    /\ tasks' = [tasks EXCEPT ![f][k].pc =
                    IF IsDuplicate(Fingerprint(tasks[f][k].c), addedMap)
                    THEN "unlock" ELSE "admit"]
    /\ UNCHANGED <<files, minWords, minChars, gpc, pending, matchesCount,
                   commentsWG, scan, commentMux, addedMap, comments, returned,
                   emitted, buildVars, leafVars, invocation>>

\* the substantiveness test: the fingerprint is recorded and the comment
\* appended, or the comment is ignored
AddCommentAdmit(f, k) ==
    /\ tasks[f][k].pc = "admit"
    /\ tasks' = [tasks EXCEPT ![f][k].pc = "unlock"]
    /\ LET c == tasks[f][k].c
       IN IF Substantial(c, minWords, minChars)
          THEN /\ addedMap' = Recorded(addedMap, Fingerprint(c))
               /\ comments' = Append(comments, c)
          ELSE /\ addedMap' = Ignored(addedMap, Fingerprint(c))
               /\ UNCHANGED comments
    /\ UNCHANGED <<files, minWords, minChars, gpc, pending, matchesCount,
                   commentsWG, scan, commentMux, returned, emitted, buildVars, leafVars, invocation>>

\* addComment returns: the deferred td.commentMux.Unlock(), then the deferred
\* td.commentsWG.Done()
AddCommentReturn(f, k) ==
    /\ tasks[f][k].pc = "unlock"
    /\ commentMux' = Unlocked(commentMux)
    /\ commentsWG' = WgDone(commentsWG)
    /\ tasks' = [tasks EXCEPT ![f][k].pc = "finished"]
    /\ UNCHANGED <<files, minWords, minChars, gpc, pending, matchesCount,
                   scan, addedMap, comments, returned, emitted, buildVars, leafVars, invocation>>

Next ==
    \/ \E f \in Paths : GenerateVisit(f)
    \/ GenerateWalkFails
    \/ GenerateWalked
    \/ GenerateReturn
    \/ \E f \in Paths : ParseFileOpen(f)
    \/ \E f \in Paths : ParseFileLine(f)
    \/ \E f \in Paths : ParseFileEnd(f)
    \/ \E f \in Paths : ParseFileDone(f)
    \/ \E f \in Paths : \E k \in DOMAIN tasks[f] : AddCommentLock(f, k)
    \/ \E f \in Paths : \E k \in DOMAIN tasks[f] : AddCommentCheck(f, k)
    \/ \E f \in Paths : \E k \in DOMAIN tasks[f] : AddCommentAdmit(f, k)
    \/ \E f \in Paths : \E k \in DOMAIN tasks[f] : AddCommentReturn(f, k)

(***************************************************************************)
(* The lines, files and thresholds the runs are drawn from                 *)
(***************************************************************************)
\* a title line: // TODO: fix abc
LineTodoFixAbc == <<"/","/"," ","T","O","D","O",":"," ","f","i","x"," ","a","b","c">>
\* a title line whose title is a prefix of "fix abc": // TODO: fix a
LineTodoFixA == <<"/","/"," ","T","O","D","O",":"," ","f","i","x"," ","a">>
\* a continuation line: // bc
LineBc == <<"/","/"," ","b","c">>
\* a title of its own: // TODO: tidy
LineTodoTidy == <<"/","/"," ","T","O","D","O",":"," ","t","i","d","y">>
\* a title of two characters: // TODO: ok
LineTodoOk == <<"/","/"," ","T","O","D","O",":"," ","o","k">>
\* a FIXME title, the tag in lower case: # fixme: ok
LineFixmeOk == <<"#"," ","f","i","x","m","e",":"," ","o","k">>
\* a bare marker: //
LineBare == <<"/","/">>
\* a comment of one character: // x
LineX == <<"/","/"," ","x">>
\* a line of code: x = 1
LineCode == <<"x"," ","="," ","1">>

File(lines) == [lines |-> lines, opens |-> TRUE, matches |-> TRUE]
\* a path os.Open fails on (its lines are on disk, out of reach), and a path
\* no filter matches
Unopenable == [lines |-> <<LineTodoTidy>>, opens |-> FALSE, matches |-> TRUE]
Filtered == [lines |-> <<LineTodoFixAbc>>, opens |-> TRUE, matches |-> FALSE]

Catalogue ==
    { File(<<LineTodoFixA, LineBc, LineTodoFixAbc>>),
      File(<<LineTodoTidy>>),
      File(<<LineTodoOk>>),
      Unopenable }

\* <<minWords, minChars>>
Thresholds == { <<1, 3>> }

\* the number of paths of a walked tree
NumFiles == 2

ScanCorpus == { LineTodoFixAbc, LineFixmeOk, LineBc, LineBare, LineX, LineCode }

\* the longest scanned file
MaxLines == 3

SeqsUpTo(S, n) == UNION { [1..m -> S] : m \in 0..n }

InitRun(fs, th) ==
    /\ files = fs
    /\ minWords = th[1]
    /\ minChars = th[2]
    /\ gpc = "walk"
    /\ pending = DOMAIN fs
    /\ matchesCount = 0
    /\ commentsWG = 0
    /\ scan = [f \in DOMAIN fs |-> NotStarted]
    /\ tasks = [f \in DOMAIN fs |-> <<>>]
    /\ commentMux = NoTask
    /\ addedMap = {}
    /\ comments = <<>>
    /\ returned = <<>>
    /\ emitted = [f \in DOMAIN fs |-> <<>>]
    /\ bpc = "off"
    /\ bbody = <<>>
    /\ bout = <<>>
    /\ lpc = "off"
    /\ lin = <<>>
    /\ lout = <<>>
    /\ invocation = 1

\* NewToDoGenerator, then Generate is called on a tree of NumFiles paths
Init == \E fs \in [1..NumFiles -> Catalogue] : \E th \in Thresholds : InitRun(fs, th)

Spec == Init /\ [][Next]_vars

\* the same program on a tree of one path, holding any lines of the corpus
InitScan ==
    \E f \in { File(ls) : ls \in SeqsUpTo(ScanCorpus, MaxLines) }
             \cup {Unopenable, Filtered} :
        InitRun(<<f>>, <<1, 3>>)

SpecScan == InitScan /\ [][Next]_vars

(***************************************************************************)
(* NewComment on its own: the body lines are drawn from texts parseFile    *)
(* can accumulate (a title first, then inner texts of comment lines)       *)
(***************************************************************************)
\* refactor parser
TextRefactorParser == <<"r","e","f","a","c","t","o","r"," ","p","a","r","s","e","r">>
\* category=core issue=7
TextCategoryIssue == <<"c","a","t","e","g","o","r","y","=","c","o","r","e"," ","i","s","s","u","e","=","7">>
\* needs cleanup
TextNeedsCleanup == <<"n","e","e","d","s"," ","c","l","e","a","n","u","p">>
\* key=value
TextKeyValue == <<"k","e","y","=","v","a","l","u","e">>
\* estimate=0.5m
TextEstimateHalfMinute == <<"e","s","t","i","m","a","t","e","=","0",".","5","m">>
\* estimate=30m
TextEstimateThirtyMinutes == <<"e","s","t","i","m","a","t","e","=","3","0","m">>
\* issue=-3
TextIssueNegative == <<"i","s","s","u","e","=","-","3">>
\* estimate=-2h
TextEstimateNegative == <<"e","s","t","i","m","a","t","e","=","-","2","h">>
TextEmpty == <<>>
TextCore == <<"c","o","r","e">>
TagTodo == <<"T","O","D","O">>

BuildCorpus ==
    { TextRefactorParser, TextCategoryIssue, TextNeedsCleanup, TextKeyValue,
      TextEstimateHalfMinute, TextEstimateThirtyMinutes, TextIssueNegative,
      TextEstimateNegative, TextEmpty }

\* the longest body handed to NewComment
MaxBody == 3

InitBuild ==
    /\ files = <<>>
    /\ minWords = 0
    /\ minChars = 0
    /\ gpc = "off"
    /\ pending = {}
    /\ matchesCount = 0
    /\ commentsWG = 0
    /\ scan = <<>>
    /\ tasks = <<>>
    /\ commentMux = NoTask
    /\ addedMap = {}
    /\ comments = <<>>
    /\ returned = <<>>
    /\ emitted = <<>>
    /\ bpc = "call"
    /\ bbody \in { b \in SeqsUpTo(BuildCorpus, MaxBody) : b = <<>> \/ b[1] # <<>> }
    /\ bout = <<>>
    /\ lpc = "off"
    /\ lin = <<>>
    /\ lout = <<>>
    /\ invocation = 0

\* c := NewComment(relativePath, lineNumber, ctype, body)
BuildCall ==
    /\ bpc = "call"
    /\ bout' = NewComment(1, 0, TagTodo, bbody)
    /\ bpc' = "done"
    /\ UNCHANGED <<genVars, bbody, leafVars, invocation>>

NextBuild == BuildCall

SpecBuild == InitBuild /\ [][NextBuild]_vars

(***************************************************************************)
(* What a run submits, as a function of the files alone                    *)
(***************************************************************************)
\* the accountComment calls parseFile makes over `lines`, from locals `st`
RECURSIVE ScanCalls(_, _)
ScanCalls(st, lines) ==
    IF lines = <<>>
    THEN IF FinalizeAtEnd(st) THEN <<OpenBlock(st)>> ELSE <<>>
    ELSE LET r == ParseLine(st, Head(lines))
         IN r.calls \o ScanCalls(r.st, Tail(lines))

\* the comments path f hands to addComment, in file order
FileRecords(f) ==
    LET calls == IF files[f].matches /\ files[f].opens
                 THEN ScanCalls(ScanLocals, files[f].lines) ELSE <<>>
    IN [k \in DOMAIN calls |->
           NewComment(f, calls[k].lineNumber, calls[k].ctype, calls[k].body)[1]]

Submitted == UNION { Range(FileRecords(f)) : f \in Paths }

RECURSIVE InPathOrder(_)
InPathOrder(f) ==
    IF f \notin Paths THEN <<>> ELSE FileRecords(f) \o InPathOrder(f + 1)

\* the run in which every goroutine finishes before the next one starts
RECURSIVE AdmitInTurn(_, _)
AdmitInTurn(acc, cs) ==
    IF cs = <<>> THEN acc
    ELSE LET c == Head(cs)
             in == Fingerprint(c) \notin acc.added
                   /\ Substantial(c, minWords, minChars)
         IN AdmitInTurn(IF in THEN [added |-> acc.added \cup {Fingerprint(c)},
                                    list |-> Append(acc.list, c)]
                        ELSE acc,
                        Tail(cs))

SequentialResult == AdmitInTurn([added |-> {}, list |-> <<>>], InPathOrder(1)).list

Rec(id) == tasks[id[1]][id[2]].c
Pc(id) == tasks[id[1]][id[2]].pc
SameText(a, b) == a.Title = b.Title /\ a.Body = b.Body
Count(list, S) == Cardinality({ n \in DOMAIN list : list[n] \in S })
IsSubstantial(c) == Substantial(c, minWords, minChars)
Running(f) == scan[f].pc \in {"open", "loop", "ret"}

(***************************************************************************)
(* The claims                                                              *)
(***************************************************************************)

\* C1: of two comments with the same title and the same body (and no third
\* one with that title and body), handed to addComment by different
\* goroutines, never more than one is in td.comments, and exactly one is in
\* the slice Generate returns, when the title passes the substantiveness test.
C1_ExactlyOneOfTwoIdentical ==
    \A a \in TaskIds : \A b \in TaskIds \ {a} :
        ( /\ SameText(Rec(a), Rec(b))
          /\ IsSubstantial(Rec(a))
          /\ \A o \in TaskIds \ {a, b} : ~SameText(Rec(o), Rec(a)) )
        => /\ Count(comments, {Rec(a), Rec(b)}) <= 1
           /\ gpc = "done" => Count(returned, {Rec(a), Rec(b)}) = 1

\* C2: when Generate has returned, every substantive comment whose
\* (title, body) pair differs from that of every other comment is in the
\* returned slice exactly once.
C2_DistinctPairReturnedOnce ==
    gpc = "done" =>
        \A a \in TaskIds :
            ( /\ IsSubstantial(Rec(a))
              /\ \A b \in TaskIds \ {a} : ~SameText(Rec(a), Rec(b)) )
            => Count(returned, {Rec(a)}) = 1

\* C3 (as claimed): the set of comments Generate returns, all fields
\* compared, is the set the one-goroutine-at-a-time run returns, whatever the
\* interleaving; stated for the runs in which comments of the same
\* fingerprint have the same title and the same body.
C3_SameRecordsEveryInterleaving ==
    ( /\ gpc = "done"
      /\ \A a \in Submitted : \A b \in Submitted :
            Fingerprint(a) = Fingerprint(b) => SameText(a, b) )
    => Range(returned) = Range(SequentialResult)

\* C3 (amended): the returned comments are submitted ones, one per
\* fingerprint of a substantive submitted comment: the set of fingerprints
\* and the number of comments returned are fixed by the files and the
\* thresholds, whatever the interleaving.
C3_SameFingerprintsEveryInterleaving ==
    gpc = "done" =>
        LET fps == { Fingerprint(c) : c \in { x \in Submitted : IsSubstantial(x) } }
        IN /\ Range(returned) \subseteq Submitted
           /\ { Fingerprint(c) : c \in Range(returned) } = fps
           /\ Len(returned) = Cardinality(fps)

\* C3 witness: Generate has returned other comments than the sequential run,
\* with the same fingerprints.
C3_Witness ==
    /\ gpc = "done"
    /\ returned # <<>>
    /\ Range(returned) # Range(SequentialResult)
    /\ { Fingerprint(c) : c \in Range(returned) }
         = { Fingerprint(c) : c \in Range(SequentialResult) }

\* C4: while a parseFile or addComment goroutine is running the WaitGroup
\* counter is positive; when Generate has returned every such goroutine has
\* finished, the returned slice is td.comments and holds a comment for every
\* fingerprint accepted.
C4_ReturnsAfterEveryTask ==
    /\ ( \/ \E f \in Paths : Running(f)
         \/ \E id \in TaskIds : Pc(id) # "finished" ) => commentsWG > 0
    /\ gpc = "done" =>
          /\ \A f \in Paths : ~Running(f)
          /\ \A f \in Paths : files[f].matches => scan[f].pc = "done"
          /\ \A id \in TaskIds : Pc(id) = "finished"
          /\ returned = comments
          /\ \A s \in addedMap : \E n \in DOMAIN returned : Fingerprint(returned[n]) = s

\* C4 witness: Generate has returned after two files were scanned and their
\* comments admitted.
C4_Witness ==
    /\ gpc = "done"
    /\ \A f \in Paths : scan[f].pc = "done" /\ tasks[f] # <<>>
    /\ Len(returned) >= 2

\* C5: a goroutine between Lock and Unlock of addComment (where td.addedMap
\* and td.comments are read and written) holds td.commentMux, so there is at
\* most one; a goroutine outside does not hold it, whichever way it left;
\* and Generate has returned only when no goroutine is left.
C5_AccessUnderTheLock ==
    /\ \A id \in TaskIds :
          Pc(id) \in {"locked", "admit", "unlock"} <=> commentMux = id
    /\ Cardinality({ id \in TaskIds : Pc(id) \in {"locked", "admit", "unlock"} }) <= 1
    /\ gpc = "done" =>
          /\ commentMux = NoTask
          /\ \A id \in TaskIds : Pc(id) = "finished"

\* C5 witness: one goroutine is about to append under the lock while another
\* waits in Lock.
C5_Witness ==
    \E a \in TaskIds : \E b \in TaskIds :
        /\ Pc(a) = "admit"
        /\ Pc(b) = "start"
        /\ commentMux = a

(***************************************************************************)
(* The blocks of a file as its lines define them: a block opens at a       *)
(* title line and runs over the comment lines after it that are no title   *)
(***************************************************************************)
\* what parseComment and parseToDoTitle make of each line of the model
KnownLines == ScanCorpus \cup UNION { Range(f.lines) : f \in Catalogue }
Parsed ==
    [l \in KnownLines |->
        [c |-> parseComment(l), t |-> parseToDoTitle(parseComment(l))]]

IsComment(l) == ~Parsed[l].c.nil
IsTitle(l) == ~Parsed[l].t.title.nil
TitleOf(l) == Parsed[l].t.title.runes
TagOf(l) == Parsed[l].t.ctype.runes
TextOf(l) == Parsed[l].c.runes

TitlePositions(lines) == { n \in DOMAIN lines : IsTitle(lines[n]) }

NthSmallest(S, k) == CHOOSE x \in S : Cardinality({ y \in S : y < x }) = k - 1
InOrder(S) == [k \in 1..Cardinality(S) |-> NthSmallest(S, k)]

RECURSIVE BlockEnd(_, _)
BlockEnd(lines, n) ==
    IF n < Len(lines) /\ IsComment(lines[n + 1]) /\ ~IsTitle(lines[n + 1])
    THEN BlockEnd(lines, n + 1)
    ELSE n

BlockOf(lines, n) ==
    [ctype |-> TagOf(lines[n]),
     body |-> <<TitleOf(lines[n])>> \o
              [m \in 1..(BlockEnd(lines, n) - n) |-> TextOf(lines[n + m])],
     last |-> BlockEnd(lines, n)]

\* the blocks of `lines` that open at position n or later, in file order
RECURSIVE BlocksFrom(_, _)
BlocksFrom(lines, n) ==
    IF n > Len(lines) THEN <<>>
    ELSE IF IsTitle(lines[n])
    THEN <<BlockOf(lines, n)>> \o BlocksFrom(lines, BlockEnd(lines, n) + 1)
    ELSE BlocksFrom(lines, n + 1)

\* the lines parseFile has read of path f
LinesRead(f) == SubSeq(files[f].lines, 1, scan[f].st.lineNumber)

\* the accountComment calls of path f without their line numbers
Emitted(f) ==
    [k \in DOMAIN emitted[f] |->
        [ctype |-> emitted[f][k].ctype, body |-> emitted[f][k].body]]

InBlock(f) == scan[f].st.lastType # <<>>
ReadsLine(f) ==
    /\ scan[f].pc = "loop"
    /\ scan'[f].pc = "loop"
    /\ scan'[f].st.lineNumber = scan[f].st.lineNumber + 1
LineRead(f) == files[f].lines[scan[f].st.lineNumber + 1]
EndsInput(f) == scan[f].pc = "loop" /\ scan'[f].pc = "ret"

\* a marker run followed by white space only
BareMarker(l) ==
    LET i0 == SkipSpace(l, 0)
        i1 == SkipCommentRunes(l, i0)
    IN i1 > i0 /\ SkipSpace(l, i1) = Len(l)

\* C6: the Line of the k-th comment built from a file is the 1-based number
\* of the file's k-th title line.
C6_LineIsTitleLine ==
    \A id \in TaskIds :
        Rec(id).Line = NthSmallest(TitlePositions(files[id[1]].lines), id[2])

\* C7: at every point of a scan the accountComment calls made so far are the
\* blocks of the lines read that a later line has ended, in file order and
\* each once; a block still open is the last one, with the lines accumulated
\* since its title (just the title right after the title line); when the
\* scan is over there is one call per title line.
C7_OneBlockPerTitle ==
    \A f \in Paths :
        LET read == LinesRead(f)
            over == scan[f].pc \in {"ret", "done"}
            all == BlocksFrom(read, 1)
            last == all[Len(all)]
            open == ~over /\ all # <<>> /\ last.last = Len(read)
            ended == IF open THEN SubSeq(all, 1, Len(all) - 1) ELSE all
        IN /\ Emitted(f) = [k \in DOMAIN ended |->
                               [ctype |-> ended[k].ctype, body |-> ended[k].body]]
           /\ scan[f].pc = "loop" => (InBlock(f) <=> open)
           /\ open => /\ scan[f].st.todo = last.body
                      /\ scan[f].st.lastType = last.ctype
           /\ (over /\ files[f].opens) =>
                 /\ read = files[f].lines
                 /\ Len(emitted[f]) = Cardinality(TitlePositions(files[f].lines))

\* C7 witness: a title line directly followed by another title line and a
\* continuation were read: the first block was emitted with its title
\* alone, the second is open with its two lines.
C7_Witness ==
    \E f \in Paths :
        /\ scan[f].pc = "loop"
        /\ scan[f].st.lineNumber = 3
        /\ IsTitle(files[f].lines[1])
        /\ IsTitle(files[f].lines[2])
        /\ Len(emitted[f]) = 1
        /\ emitted[f][1].body = <<TitleOf(files[f].lines[1])>>
        /\ Len(scan[f].st.todo) = 2

\* C8: a pass over a line that is no comment leaves the scanner idle and
\* makes one accountComment call, with the open block, when a block was
\* open and none when it was not; the end of input makes one call when a
\* block is open and none otherwise; no call follows the end of input.
C8_Step ==
    \A f \in Paths :
        LET st == scan[f].st
            call == [lineNumber |-> st.lastStart, ctype |-> st.lastType, body |-> st.todo]
            once == IF InBlock(f) THEN Append(emitted[f], call) ELSE emitted[f]
        IN /\ (ReadsLine(f) /\ ~IsComment(LineRead(f))) =>
                 /\ scan'[f].st.lastType = <<>>
                 /\ emitted'[f] = once
           /\ EndsInput(f) => emitted'[f] = once
           /\ scan[f].pc \in {"ret", "done"} => emitted'[f] = emitted[f]

C8_CodeLineAndEndOfInput == [][C8_Step]_vars

\* C8 witness: a title line then a line of code were read: the block was
\* emitted and the scanner is idle.
C8_Witness ==
    \E f \in Paths :
        /\ scan[f].pc = "loop"
        /\ scan[f].st.lineNumber = 2
        /\ IsTitle(files[f].lines[1])
        /\ ~IsComment(files[f].lines[2])
        /\ Len(emitted[f]) = 1
        /\ ~InBlock(f)

\* C9: a pass over a comment line that is no title makes no accountComment
\* call and keeps the block state; with a block open it appends what
\* parseComment returned for the line (empty for a bare marker) to the
\* block's lines, with none open it leaves the lines alone.
C9_Step ==
    \A f \in Paths :
        (ReadsLine(f) /\ IsComment(LineRead(f)) /\ ~IsTitle(LineRead(f))) =>
            /\ emitted'[f] = emitted[f]
            /\ tasks'[f] = tasks[f]
            /\ scan'[f].st.lastType = scan[f].st.lastType
            /\ scan'[f].st.lastStart = scan[f].st.lastStart
            /\ scan'[f].st.todo =
                  IF InBlock(f)
                  THEN Append(scan[f].st.todo, TextOf(LineRead(f)))
                  ELSE scan[f].st.todo
            /\ (InBlock(f) /\ BareMarker(LineRead(f))) =>
                  scan'[f].st.todo = Append(scan[f].st.todo, <<>>)

C9_ContinuationLines == [][C9_Step]_vars

\* C9 witness: a block is open whose lines are the title, the empty text of
\* a bare marker and the text of a continuation line, in that order.
C9_Witness ==
    \E f \in Paths :
        /\ scan[f].pc = "loop"
        /\ InBlock(f)
        /\ files[f].lines = <<LineTodoFixAbc, LineBare, LineBc>>
        /\ scan[f].st.todo = <<TitleOf(LineTodoFixAbc), <<>>, <<"b","c">>>>
        /\ emitted[f] = <<>>

\* C10: of a body of more than one line NewComment tries the second line,
\* and no other, as properties: the comment's category, issue and estimate
\* are those parseIniProperties leaves from it; the body is the lines from
\* the third on when it parsed and the lines from the second on when it did
\* not (a line without '=' never parses), joined by newline and trimmed.
C10_SecondLineIsMetadata ==
    (bpc = "done" /\ Len(bbody) > 1) =>
        LET p == parseIniProperties(ToDoComment(TagTodo, bbody[1], 1, 0), bbody[2])
            c == bout[1]
            from2 == TrimSpace(Join(SubSeq(bbody, 2, Len(bbody)), <<"\n">>))
            from3 == TrimSpace(Join(SubSeq(bbody, 3, Len(bbody)), <<"\n">>))
        IN /\ bout # <<>>
           /\ c.Title = bbody[1]
           /\ c.Category = p.t.Category
           /\ c.Issue = p.t.Issue
           /\ c.Estimate = p.t.Estimate
           /\ c.Body = IF p.err THEN from2 ELSE from3
           /\ ~Contains(bbody[2], "=") => c.Body = from2
           /\ bbody[2] = TextCategoryIssue =>
                 /\ c.Category = TextCore
                 /\ c.Issue = 7
                 /\ c.Body = from3
           /\ bbody = <<TextRefactorParser, TextCategoryIssue, TextNeedsCleanup>> =>
                 c.Body = TextNeedsCleanup

\* C10 witness: NewComment has built the comment of the lines
\* 'refactor parser', 'category=core issue=7', 'needs cleanup'.
C10_Witness ==
    /\ bpc = "done"
    /\ bbody = <<TextRefactorParser, TextCategoryIssue, TextNeedsCleanup>>
    /\ bout[1].Category = TextCore
    /\ bout[1].Issue = 7
    /\ bout[1].Body = TextNeedsCleanup

(***************************************************************************)
(* parseComment on its own, on every line over a small alphabet            *)
(***************************************************************************)
\* no generator is running and no NewComment call is made
GenOff ==
    /\ files = <<>>
    /\ minWords = 0
    /\ minChars = 0
    /\ gpc = "off"
    /\ pending = {}
    /\ matchesCount = 0
    /\ commentsWG = 0
    /\ scan = <<>>
    /\ tasks = <<>>
    /\ commentMux = NoTask
    /\ addedMap = {}
    /\ comments = <<>>
    /\ returned = <<>>
    /\ emitted = <<>>
    /\ bpc = "off"
    /\ bbody = <<>>
    /\ bout = <<>>
    /\ invocation = 0

\* two markers, white space, and two characters of text
LineAlphabet == { "/", "*", " ", "x", "y" }

\* the longest line handed to parseComment
MaxLine == 4

InitComment ==
    /\ GenOff
    /\ lpc = "comment"
    /\ lin \in SeqsUpTo(LineAlphabet, MaxLine)
    /\ lout = NilRunes

\* comment := parseComment(line)
CommentCall ==
    /\ lpc = "comment"
    /\ lout' = parseComment(lin)
    /\ lpc' = "commented"
    /\ UNCHANGED <<genVars, buildVars, lin, invocation>>

NextComment == CommentCall

SpecComment == InitComment /\ [][NextComment]_vars

\* the marker characters, as the contract of parseComment lists them
Markers == { "/", "#", "%", ";", "*" }

RECURSIVE DropMarkers(_)
DropMarkers(s) ==
    IF s # <<>> /\ Head(s) \in Markers THEN DropMarkers(Tail(s)) ELSE s

\* the first character of the line that is no white space is a marker
StartsWithMarker(l) == TrimLeft(l) # <<>> /\ Head(TrimLeft(l)) \in Markers

\* what follows the run of markers, white space removed at both ends
TextAfterMarkers(l) == TrimSpace(DropMarkers(TrimLeft(l)))

\* C11: for a line whose first character after white space is a marker,
\* parseComment returns (present, not nil) the text after the marker run
\* with white space removed at both ends, whatever its length; for a line
\* holding no marker at all it returns nil.
C11_InnerTextOfEveryLength ==
    lpc = "commented" =>
        /\ StartsWithMarker(lin) => lout = Runes(TextAfterMarkers(lin))
        /\ (\A n \in DOMAIN lin : lin[n] \notin Markers) => lout = NilRunes

(***************************************************************************)
(* parseToDoTitle on its own: a head (a prefix in some case, or a near     *)
(* miss) followed by a short tail                                          *)
(***************************************************************************)
LowerOf(ch) ==
    IF ch \in Range(Upper)
    THEN Lower[CHOOSE k \in DOMAIN Upper : Upper[k] = ch]
    ELSE ch
\* s in lower case, and s with only its first character in upper case
Lowered(s) == [k \in DOMAIN s |-> LowerOf(s[k])]
Capitalized(s) == [k \in DOMAIN s |-> IF k = 1 THEN s[k] ELSE LowerOf(s[k])]
\* a prefix without its final space, and without its final ": "
WithoutSpace(pr) == SubSeq(pr, 1, Len(pr) - 1)
WithoutColon(pr) == SubSeq(pr, 1, Len(pr) - 2)

\* a tag that is none of the six: NOTE:
HeadNote == <<"N","O","T","E",":"," ">>

TitleHeads ==
    UNION { { pr, Lowered(pr), Capitalized(pr), WithoutSpace(pr), WithoutColon(pr) } :
            pr \in Range(commentPrefixes) }
    \cup { HeadNote, <<>> }

TailAlphabet == { "x", " " }

\* the longest tail after a head
MaxTail == 2

InitTitle ==
    /\ GenOff
    /\ lpc = "title"
    /\ lin \in { h \o t : h \in TitleHeads, t \in SeqsUpTo(TailAlphabet, MaxTail) }
    /\ lout = NoTitle

\* ctype, title := parseToDoTitle(c)
TitleCall ==
    /\ lpc = "title"
    /\ lout' = parseToDoTitle(Runes(lin))
    /\ lpc' = "titled"
    /\ UNCHANGED <<genVars, buildVars, lin, invocation>>

NextTitle == TitleCall

SpecTitle == InitTitle /\ [][NextTitle]_vars

\* the six tags, and the prefix each is matched by
Tags ==
    { <<"T","O","D","O">>, <<"F","I","X","M","E">>, <<"B","U","G">>,
      <<"H","A","C","K">>, <<"U","R","G","E","N","T">>, <<"R","E","F","S">> }
PrefixOf(tag) == tag \o <<":", " ">>
Folded(s) == [k \in DOMAIN s |-> ToUpper(s[k])]

\* text t is strictly longer than the prefix of tag and starts with it,
\* upper and lower case taken as the same
MatchesTag(t, tag) ==
    /\ Len(t) > Len(PrefixOf(tag))
    /\ Folded(SubSeq(t, 1, Len(PrefixOf(tag)))) = PrefixOf(tag)
Remainder(t, tag) == SubSeq(t, Len(PrefixOf(tag)) + 1, Len(t))

\* C12: parseToDoTitle returns a title exactly for the texts that are
\* strictly longer than one of the six prefixes and start with it, case
\* folded; the type is then that prefix without its ": ", in upper case, and
\* the title is the rest of the text, which is not empty; for every other
\* text both results are nil.
C12_TitleIffPrefix ==
    lpc = "titled" =>
        IF \E tag \in Tags : MatchesTag(lin, tag)
        THEN \E tag \in Tags :
                /\ MatchesTag(lin, tag)
                /\ lout.ctype = Runes(tag)
                /\ lout.title = Runes(Remainder(lin, tag))
                /\ Remainder(lin, tag) # <<>>
        ELSE lout = NoTitle

\* C12 witness: "fixme: x" has been matched, as FIXME with the title "x".
C12_Witness ==
    /\ lpc = "titled"
    /\ lin = <<"f","i","x","m","e",":"," ","x">>
    /\ lout.ctype = Runes(<<"F","I","X","M","E">>)
    /\ lout.title = Runes(<<"x">>)

(***************************************************************************)
(* The generator on one file of titles, under every pair of thresholds     *)
(***************************************************************************)
\* titles of no, one and two words longer than two characters
AdmitCorpus == { LineTodoOk, LineTodoTidy, LineTodoFixAbc }

\* the most title lines of the file
MaxTitles == 2
\* the largest td.minWords and td.minChars
MaxWords == 2
MaxChars == 5

InitAdmit ==
    \E ls \in SeqsUpTo(AdmitCorpus, MaxTitles) :
        \E mw \in 0..MaxWords : \E mc \in 0..MaxChars :
            InitRun(<<File(ls)>>, <<mw, mc>>)

SpecAdmit == InitAdmit /\ [][Next]_vars

\* the number of white-space separated tokens of t longer than two characters
LongTokens(t) == Cardinality({ k \in DOMAIN Fields(t) : Len(Fields(t)[k]) > 2 })

\* the goroutine id passes the substantiveness test in this step
Decides(id) == Pc(id) = "admit" /\ tasks'[id[1]][id[2]].pc # "admit"

\* C13: a comment whose fingerprint was not found in td.addedMap is appended
\* to td.comments, and its fingerprint recorded, exactly when its title has
\* at least minWords tokens longer than two characters or is at least
\* minChars long; otherwise td.comments and td.addedMap stay as they are.
C13_Step ==
    \A id \in TaskIds :
        Decides(id) =>
            LET c == Rec(id)
            IN IF LongTokens(c.Title) >= minWords \/ Len(c.Title) >= minChars
               THEN /\ comments' = Append(comments, c)
                    /\ addedMap' = addedMap \cup {Fingerprint(c)}
               ELSE /\ comments' = comments
                    /\ addedMap' = addedMap

C13_AcceptedIffSubstantial == [][C13_Step]_vars

\* C13 witness: with minWords = 1 the title "ok" is returned since minChars
\* is 2.
C13_Witness ==
    /\ gpc = "done"
    /\ minWords = 1
    /\ minChars = 2
    /\ \E n \in DOMAIN returned : returned[n].Title = <<"o","k">>

\* C14: in every comment NewComment builds, whatever its second line holds,
\* Issue is 0 or a positive integer and Estimate is not negative.
C14_IssueAndEstimateNotNegative ==
    (bpc = "done" /\ bout # <<>>) =>
        /\ bout[1].Issue >= 0
        /\ bout[1].Estimate.num >= 0

\* the comments of the files that can be opened, the others left out
ReadablePaths == { f \in Paths : files[f].matches /\ files[f].opens }
ReadableRecords ==
    UNION { { NewComment(f, b.lineNumber, b.ctype, b.body)[1] :
                b \in Range(ScanCalls(ScanLocals, files[f].lines)) } :
            f \in ReadablePaths }

\* C15: a parseFile whose os.Open fails makes no accountComment call and
\* spawns no addComment, and its deferred Done still takes it off the
\* WaitGroup (the counter is always the number of goroutines not yet
\* finished); Generate does not exit on it, and what Generate returns is
\* what the files that can be opened yield: their comments, one for each
\* fingerprint of a substantive one.
C15_UnopenedFileIsSkipped ==
    /\ \A f \in Paths :
          ~files[f].opens =>
              tasks[f] = <<>> /\ emitted[f] = <<>> /\ scan[f].st = ScanLocals
    /\ commentsWG = Cardinality({ f \in Paths : Running(f) })
                    + Cardinality({ id \in TaskIds : Pc(id) # "finished" })
    /\ gpc = "exit" => \A f \in Paths : scan[f].pc = "none"
    /\ gpc = "done" =>
          /\ \A f \in Paths : files[f].matches => scan[f].pc = "done"
          /\ Range(returned) \subseteq ReadableRecords
          /\ { Fingerprint(c) : c \in Range(returned) }
               = { Fingerprint(c) : c \in { x \in ReadableRecords : IsSubstantial(x) } }

\* C15 witness: Generate has returned the comment of a file scanned next to
\* a file that could not be opened, whose goroutine has finished.
C15_Witness ==
    /\ gpc = "done"
    /\ returned # <<>>
    /\ \E f \in Paths : ~files[f].opens /\ scan[f].pc = "done"

\* the largest element of a non-empty set of numbers
Largest(S) == CHOOSE x \in S : \A y \in S : y <= x

\* C16: while a block is open lastStart is the 1-based number of its title
\* line less one, whatever was read since; the k-th accountComment call of a
\* file carries, and the comment built from it has as Line, the 1-based
\* number of the file's k-th title line less one.
C16_StartLineIsTitleLineLessOne ==
    \A f \in Paths :
        LET titles == TitlePositions(files[f].lines)
        IN /\ (scan[f].pc = "loop" /\ InBlock(f)) =>
                 scan[f].st.lastStart = Largest(TitlePositions(LinesRead(f))) - 1
           /\ \A k \in DOMAIN emitted[f] :
                 emitted[f][k].lineNumber = NthSmallest(titles, k) - 1
           /\ \A k \in DOMAIN tasks[f] :
                 tasks[f][k].c.Line = NthSmallest(titles, k) - 1

\* C16 witness: the title on line 2 of three lines was finalized at the end
\* of the file, after the continuation on line 3 was read, with Line 1.
C16_Witness ==
    \E f \in Paths :
        /\ files[f].lines = <<LineCode, LineTodoFixAbc, LineBc>>
        /\ scan[f].pc = "ret"
        /\ scan[f].st.lineNumber = 3
        /\ Len(tasks[f]) = 1
        /\ tasks[f][1].c.Line = 1

(***************************************************************************)
(* Generate called again on the same generator, the one file of the tree   *)
(* having been edited or not in between                                    *)
(***************************************************************************)
AgainFiles ==
    { File(<<LineTodoTidy>>), File(<<LineTodoFixAbc>>),
      File(<<LineTodoTidy, LineTodoFixAbc>>), File(<<>>) }

\* the most Generate calls made on one generator
MaxCalls == 2

InitAgain == \E f \in AgainFiles : InitRun(<<f>>, <<1, 3>>)

\* Generate has returned and is called again: matchesCount := 0 and a new
\* Walk; td.comments, td.addedMap, the WaitGroup and the mutex are the
\* fields NewToDoGenerator made, which Generate does not assign
GenerateAgain ==
    /\ gpc = "done"
    /\ invocation < MaxCalls
    /\ invocation' = invocation + 1
    /\ \E f \in AgainFiles : files' = <<f>>
    /\ gpc' = "walk"
    /\ pending' = Paths
    /\ matchesCount' = 0
    /\ scan' = [f \in Paths |-> NotStarted]
    /\ tasks' = [f \in Paths |-> <<>>]
    /\ emitted' = [f \in Paths |-> <<>>]
    /\ returned' = <<>>
    /\ UNCHANGED <<minWords, minChars, commentsWG, commentMux, addedMap,
                   comments, buildVars, leafVars>>

NextAgain == Next \/ GenerateAgain

SpecAgain == InitAgain /\ [][NextAgain]_vars

\* C17: when a Generate call starts, td.addedMap and td.comments are empty,
\* the second call on a generator included; what a call returns are comments
\* of the files as that call found them, one for each fingerprint of a
\* substantive one.
C17_EachCallStartsEmpty ==
    /\ (gpc = "walk" /\ pending = Paths) => (addedMap = {} /\ comments = <<>>)
    /\ gpc = "done" =>
          /\ Range(returned) \subseteq Submitted
          /\ { Fingerprint(c) : c \in Range(returned) }
               = { Fingerprint(c) : c \in { x \in Submitted : IsSubstantial(x) } }

\* parseIniProperties returns an error for the second line of the body
SecondLineFails ==
    /\ Len(bbody) > 1
    /\ parseIniProperties(ToDoComment(TagTodo, bbody[1], 1, 0), bbody[2]).err

\* C18: when parseIniProperties returns an error for the second line, the
\* comment NewComment builds has that line in its body (the body is the
\* lines from the second on) and its Category, Issue and Estimate are the
\* zero values.
C18_FailedMetadataLeavesNoField ==
    (bpc = "done" /\ SecondLineFails) =>
        /\ bout[1].Body = TrimSpace(Join(SubSeq(bbody, 2, Len(bbody)), <<"\n">>))
        /\ bout[1].Category = <<>>
        /\ bout[1].Issue = 0
        /\ bout[1].Estimate = Zero

\* the goroutine id leaves addComment's test of the comment in this step
\* without the comment being accepted: as a duplicate or as insubstantial
Rejects(id) ==
    \/ Pc(id) = "locked" /\ tasks'[id[1]][id[2]].pc = "unlock"
    \/ Pc(id) = "admit" /\ tasks'[id[1]][id[2]].pc = "unlock"
                        /\ ~IsSubstantial(Rec(id))

\* C19: after every step td.addedMap holds exactly the fingerprints of the
\* comments in td.comments, which has one comment for each of them; a step
\* in which a comment is rejected, as a duplicate or as insubstantial,
\* changes neither td.addedMap nor td.comments.
C19_Step ==
    /\ addedMap' = { Fingerprint(comments'[n]) : n \in DOMAIN comments' }
    /\ Len(comments') = Cardinality(addedMap')
    /\ \A id \in TaskIds :
          Rejects(id) => (addedMap' = addedMap /\ comments' = comments)

C19_SetMatchesCollection == [][C19_Step]_vars

\* C19 witness: of three comments one was accepted, one rejected as a
\* duplicate and one as insubstantial; Generate has returned the one.
C19_Witness ==
    /\ gpc = "done"
    /\ Cardinality(TaskIds) = 3
    /\ \E id \in TaskIds : ~IsSubstantial(Rec(id))
    /\ Cardinality(addedMap) = 1
    /\ Len(returned) = 1

(***************************************************************************)
(* Generate under a scheduler that keeps running some goroutine as long as *)
(* one can run: files with a comment (the same in several files), with a   *)
(* rejected one, with no comment at all, and a file that cannot be opened  *)
(***************************************************************************)
LiveCatalogue ==
    { File(<<LineTodoTidy>>),
      File(<<LineTodoOk>>),
      File(<<LineCode>>),
      Unopenable }

InitLive == \E fs \in [1..NumFiles -> LiveCatalogue] : InitRun(fs, <<1, 3>>)

\* every step of Next but the pass of the loop over a line
NextButRead ==
    \/ \E f \in Paths : GenerateVisit(f)
    \/ GenerateWalkFails
    \/ GenerateWalked
    \/ GenerateReturn
    \/ \E f \in Paths : ParseFileOpen(f)
    \/ \E f \in Paths : ParseFileEnd(f)
    \/ \E f \in Paths : ParseFileDone(f)
    \/ \E f \in Paths : \E k \in DOMAIN tasks[f] : AddCommentLock(f, k)
    \/ \E f \in Paths : \E k \in DOMAIN tasks[f] : AddCommentCheck(f, k)
    \/ \E f \in Paths : \E k \in DOMAIN tasks[f] : AddCommentAdmit(f, k)
    \/ \E f \in Paths : \E k \in DOMAIN tasks[f] : AddCommentReturn(f, k)

\* ParseFileLine(f) is enabled; a step is a ParseFileLine(f) step
CanRead(f) == scan[f].pc = "loop" /\ scan[f].st.lineNumber < Len(files[f].lines)
Reads(f) == scan'[f].st.lineNumber = scan[f].st.lineNumber + 1

\* WF_vars(ParseFileLine(f)), written out: a scan that can read its next
\* line does not wait forever
FairRead(f) == []<>(~CanRead(f)) \/ []<><<Reads(f)>>_vars

\* the scheduler does not stop while a goroutine can take a step
SpecLive ==
    /\ InitLive
    /\ [][Next]_vars
    /\ WF_vars(NextButRead)
    /\ \A f \in 1..NumFiles : FairRead(f)

\* Walk has handed over a path: it is not the root that failed
WalkUnderWay == pending # Paths

\* Generate has returned and nothing is left behind
AllOver ==
    /\ gpc = "done"
    /\ commentsWG = 0
    /\ commentMux = NoTask
    /\ \A f \in Paths : scan[f].pc \in {"none", "done"}
    /\ \A id \in TaskIds : Pc(id) = "finished"

\* C20: once Walk is under way, Generate eventually returns, with the
\* WaitGroup counter at zero, the mutex free and every parseFile and
\* addComment goroutine finished, whatever the files hold.
C20_GenerateReturns == WalkUnderWay ~> AllOver

\* C20 witness: Generate has returned from a tree with a file that could
\* not be opened and a file whose only comment was rejected.
C20_Witness ==
    /\ AllOver
    /\ \E f \in Paths : ~files[f].opens
    /\ \E id \in TaskIds : ~IsSubstantial(Rec(id))
    /\ returned = <<>>
====
